---- MODULE Spec2Model ----
(***************************************************************************)
(* Model of nextgen/bcbio/solexa/samplesheet.py: conversion of an Illumina *)
(* SampleSheet CSV into the run_info lane structure (csv2yaml) and lookup  *)
(* of the sample sheet of a run (run_has_samplesheet).                     *)
(*                                                                         *)
(* Flowcell ids and barcodes are Python 2 byte strings and are modelled as *)
(* sequences of ASCII codes, because the code orders them (list.sort),     *)
(* tests them for emptiness and compares them character by character       *)
(* (difflib).  Lanes, sample ids and genome builds are only compared for   *)
(* equality and concatenated, so they are TLA+ strings.                    *)
(***************************************************************************)
EXTENDS Integers, Sequences, FiniteSets, TLC

VARIABLES op, pc, in_file, gen, pass, pos, item, info1, info2, handles,
          barcode_ids, cur_group, groups, all_lanes, out, error,
          fc_name, config, fs, todo, listing, fcid_sheet, scanned, result

vars == <<op, pc, in_file, gen, pass, pos, item, info1, info2, handles,
          barcode_ids, cur_group, groups, all_lanes, out, error,
          fc_name, config, fs, todo, listing, fcid_sheet, scanned, result>>

convVars == <<in_file, gen, pass, pos, item, info1, info2, handles,
              barcode_ids, cur_group, groups, all_lanes, out>>

lookupVars == <<fc_name, config, fs, todo, listing, fcid_sheet, scanned, result>>

----------------------------------------------------------------------------
(* Bounds of the model *)

MaxRows == 3
MaxDirs == 2

----------------------------------------------------------------------------
(* Strings and generic helpers *)

Range(s) == {s[i] : i \in DOMAIN s}

Min(a, b) == IF a < b THEN a ELSE b

\* Python 2 str ordering: bytewise lexicographic, a proper prefix sorts first
StrLess(a, b) ==
    \E k \in 1..(Min(Len(a), Len(b)) + 1) :
        /\ \A i \in 1..(k - 1) : a[i] = b[i]
        /\ \/ (k > Len(a) /\ k <= Len(b))
           \/ (k <= Len(a) /\ k <= Len(b) /\ a[k] < b[k])

RECURSIVE ListOfSet(_)
\* list(set(...)): the elements of a set in some order
ListOfSet(S) ==
    IF S = {} THEN <<>>
    ELSE LET x == CHOOSE y \in S : TRUE IN <<x>> \o ListOfSet(S \ {x})

RECURSIVE SortInsert(_, _)
SortInsert(x, s) ==
    IF s = <<>> THEN <<x>>
    ELSE IF StrLess(x, Head(s)) THEN <<x>> \o s
    ELSE <<Head(s)>> \o SortInsert(x, Tail(s))

RECURSIVE ListSort(_)
\* list.sort() on a list of strings: ascending, duplicates kept
ListSort(s) == IF s = <<>> THEN <<>> ELSE SortInsert(Head(s), ListSort(Tail(s)))

----------------------------------------------------------------------------
(* The input data *)

FC1 == <<70, 67, 49>>
FC2 == <<70, 67, 50>>
NoStr == <<>>
ACG == <<65, 67, 71>>
ACGT == <<65, 67, 71, 84>>
TTTT == <<84, 84, 84, 84>>

Header == << <<70, 67, 73, 68>>, "Lane", "SampleID", "SampleRef",
             <<73, 110, 100, 101, 120>> >>

\* rows as csv.reader returns them: lists of fields; a blank line is []
DataRows ==
    { <<FC1, "1", "S1", "hg19", NoStr>>,
      <<FC1, "1", "S2", "hg19", ACGT>>,
      <<FC1, "1", "S3", "hg19", TTTT>>,
      <<FC1, "1", "S1", "mm9", ACGT>>,
      <<FC1, "2", "S2", "hg19", TTTT>>,
      <<FC2, "2", "S3", "hg19", NoStr>>,
      <<FC1, "2", "2", "hg19", ACG>>,
      <<FC1, "2", "S1", "hg19", ACGT, "Description">>,
      <<FC1, "1", "S1", "hg19">>,
      <<>> }

RECURSIVE SeqsUpTo(_, _)
SeqsUpTo(S, n) ==
    IF n = 0 THEN {<<>>}
    ELSE LET shorter == SeqsUpTo(S, n - 1)
         IN shorter \cup {Append(s, x) : s \in shorter, x \in S}

\* an input file: no line at all, or a header line followed by data rows
InputFiles == {<<>>} \cup {<<Header>> \o rows : rows \in SeqsUpTo(DataRows, MaxRows)}

----------------------------------------------------------------------------
(* _read_input_csv: one row of the reader loop *)

\* what the loop body does with one line: skip it, yield a record, or fail
\* to unpack line[:5] into five names
RowKind(line) ==
    IF Len(line) = 0 THEN "skip"
    ELSE IF Len(line) < 5 THEN "short"
    ELSE "yield"

RowRecord(line) == <<line[1], line[2], line[3], line[4], line[5]>>

WithExit_leak(hs, h) == hs

\* leaving the with block of _read_input_csv closes in_handle
WithExit(hs, h) == hs \ {h}

----------------------------------------------------------------------------
(* _generate_barcode_ids *)

_generate_barcode_ids_nodedup(info) ==
    LET barcodes == ListSort([i \in DOMAIN info |-> info[i][Len(info[i])]])
    IN [bc \in Range(barcodes) |->
          <<"SampleSheet",
            CHOOSE i \in DOMAIN barcodes :
               barcodes[i] = bc /\ \A j \in DOMAIN barcodes : j > i => barcodes[j] # bc>>]

_generate_barcode_ids(info) ==
    LET barcodes == ListSort(ListOfSet({info[i][Len(info[i])] : i \in DOMAIN info}))
    IN [bc \in Range(barcodes) |->
          <<"SampleSheet",
            CHOOSE i \in DOMAIN barcodes :
               barcodes[i] = bc /\ \A j \in DOMAIN barcodes : j > i => barcodes[j] # bc>>]

----------------------------------------------------------------------------
(* _organize_lanes *)

GroupKey_offbyone(x) == <<x[2], x[3]>>

\* the groupby key function: lambda x: (x[1], x[3])
GroupKey(x) == <<x[2], x[4]>>

\* barcode_ids[bc_seq] raises KeyError for a barcoded group
LaneKeyError(info, bc_ids) ==
    Len(info) # 1 /\ \E i \in DOMAIN info : info[i][5] \notin DOMAIN bc_ids

LaneEntry_threshold(key, info, bc_ids) ==
    LET cur_lane == [lane |-> key[1], genome_build |-> key[2], analysis |-> "Standard"]
    IN IF Len(info) <= 2
       THEN cur_lane @@ [description |-> info[1][2]]
       ELSE cur_lane @@
            [description |-> "Barcoded " \o key[1],
             multiplex |-> [i \in DOMAIN info |->
                              [barcode_type |-> bc_ids[info[i][5]][1],
                               barcode_id |-> bc_ids[info[i][5]][2],
                               sequence |-> info[i][5],
                               name |-> info[i][3]]]]

\* the body of the groupby loop: the lane dictionary of one group
LaneEntry(key, info, bc_ids) ==
    LET cur_lane == [lane |-> key[1], genome_build |-> key[2], analysis |-> "Standard"]
    IN IF Len(info) = 1
       THEN cur_lane @@ [description |-> info[1][2]]
       ELSE cur_lane @@
            [description |-> "Barcoded " \o key[1],
             multiplex |-> [i \in DOMAIN info |->
                              [barcode_type |-> bc_ids[info[i][5]][1],
                               barcode_id |-> bc_ids[info[i][5]][2],
                               sequence |-> info[i][5],
                               name |-> info[i][3]]]]

----------------------------------------------------------------------------
(* _get_flowcell_id, reading a whole sheet *)

RECURSIVE ReadRows(_, _)
\* the records the reader loop yields from line p on; err when a line with
\* one to four fields stops it with a ValueError
ReadRows(file, p) ==
    IF p > Len(file) THEN [err |-> FALSE, info |-> <<>>]
    ELSE IF RowKind(file[p]) = "short" THEN [err |-> TRUE, info |-> <<>>]
    ELSE LET rest == ReadRows(file, p + 1)
         IN IF RowKind(file[p]) = "skip" THEN rest
            ELSE [err |-> rest.err,
                  info |-> IF rest.err THEN <<>> ELSE <<RowRecord(file[p])>> \o rest.info]

\* all records of a file; the first line is the header, and a file without
\* any line ends the generator at reader.next()
ReadAll(file) == IF Len(file) = 0 THEN [err |-> FALSE, info |-> <<>>] ELSE ReadRows(file, 2)

_get_flowcell_id_lenient(file) ==
    LET r == ReadAll(file)
        fc_id == {x[1] : x \in Range(r.info)}
    IN IF r.err THEN [err |-> TRUE, ids |-> {}]
       ELSE [err |-> FALSE, ids |-> fc_id]

_get_flowcell_id(file) ==
    LET r == ReadAll(file)
        fc_id == {x[1] : x \in Range(r.info)}
    IN IF r.err THEN [err |-> TRUE, ids |-> {}]
       ELSE IF Cardinality(fc_id) > 1 THEN [err |-> TRUE, ids |-> {}]
       ELSE [err |-> FALSE, ids |-> fc_id]

----------------------------------------------------------------------------
(* difflib.SequenceMatcher(a, b) and difflib.get_close_matches, as called  *)
(* on line 98; the strings are far below the 200 characters at which       *)
(* SequenceMatcher starts to treat popular characters as junk             *)

\* a[i .. i+k-1] = b[j .. j+k-1]
SameBlock(a, b, i, j, k) == \A d \in 0..(k - 1) : a[i + d] = b[j + d]

\* find_longest_match in a[alo .. ahi-1], b[blo .. bhi-1]: a longest common
\* block, the one starting earliest in a, then earliest in b
FindLongestMatch(a, b, alo, ahi, blo, bhi) ==
    LET blocks == {m \in (alo..(ahi - 1)) \X (blo..(bhi - 1)) \X (1..(ahi - alo)) :
                      /\ m[1] + m[3] <= ahi
                      /\ m[2] + m[3] <= bhi
                      /\ SameBlock(a, b, m[1], m[2], m[3])}
    IN IF blocks = {} THEN <<alo, blo, 0>>
       ELSE CHOOSE m \in blocks :
               \A n \in blocks :
                  \/ n[3] < m[3]
                  \/ n[3] = m[3] /\ n[1] > m[1]
                  \/ n[3] = m[3] /\ n[1] = m[1] /\ n[2] >= m[2]

RECURSIVE MatchCount(_, _, _, _, _, _)
\* the total size of get_matching_blocks: the longest block, then the same
\* to its left and to its right
MatchCount(a, b, alo, ahi, blo, bhi) ==
    LET m == FindLongestMatch(a, b, alo, ahi, blo, bhi)
    IN IF m[3] = 0 THEN 0
       ELSE m[3]
            + (IF alo < m[1] /\ blo < m[2]
               THEN MatchCount(a, b, alo, m[1], blo, m[2]) ELSE 0)
            + (IF m[1] + m[3] < ahi /\ m[2] + m[3] < bhi
               THEN MatchCount(a, b, m[1] + m[3], ahi, m[2] + m[3], bhi) ELSE 0)

\* ratios are 2.0*matches/length, kept as the pair <<2*matches, length>>;
\* _calculate_ratio returns 1.0 when both strings are empty
CalcRatio(matches, length) == IF length = 0 THEN <<1, 1>> ELSE <<2 * matches, length>>

Ratio(a, b) == CalcRatio(MatchCount(a, b, 1, Len(a) + 1, 1, Len(b) + 1), Len(a) + Len(b))

\* quick_ratio: size of the multiset intersection of the characters
QuickRatio(a, b) ==
    LET chars == Range(a) \cap Range(b)
        cnt(s, c) == Cardinality({i \in DOMAIN s : s[i] = c})
        RECURSIVE total(_)
        total(C) == IF C = {} THEN 0
                    ELSE LET c == CHOOSE y \in C : TRUE
                         IN Min(cnt(a, c), cnt(b, c)) + total(C \ {c})
    IN CalcRatio(total(chars), Len(a) + Len(b))

RealQuickRatio(a, b) == CalcRatio(Min(Len(a), Len(b)), Len(a) + Len(b))

RatioLess(r, s) == r[1] * s[2] < s[1] * r[2]

AtLeastCutoff_half(r) == r[1] * 10 >= 5 * r[2]

\* ratio >= cutoff for the default cutoff 0.6
AtLeastCutoff(r) == r[1] * 10 >= 6 * r[2]

\* get_close_matches(word, possibilities, 1): the possibility of the
\* largest (ratio, string) pair among those reaching the cutoff, as a list
get_close_matches(word, possibilities) ==
    LET res == {x \in possibilities :
                   /\ AtLeastCutoff(RealQuickRatio(x, word))
                   /\ AtLeastCutoff(QuickRatio(x, word))
                   /\ AtLeastCutoff(Ratio(x, word))}
    IN IF res = {} THEN <<>>
       ELSE << CHOOSE x \in res :
                  \A y \in res :
                     \/ y = x
                     \/ RatioLess(Ratio(y, word), Ratio(x, word))
                     \/ /\ ~RatioLess(Ratio(x, word), Ratio(y, word))
                        /\ StrLess(y, x) >>

----------------------------------------------------------------------------
(* The environment of run_has_samplesheet: directories and sheets *)

EmptyDict == [k \in {} |-> k]

None == <<>>

BlankRow == <<NoStr, "1", "S1", "hg19", NoStr>>
RowFC1 == <<FC1, "1", "S1", "hg19", NoStr>>
RowFC2 == <<FC2, "2", "S3", "hg19", NoStr>>

Sheets ==
    { <<Header, RowFC1>>,
      <<Header, RowFC2, <<>>, RowFC2>>,
      <<Header, RowFC1, RowFC2>>,
      <<Header, BlankRow>>,
      <<Header, <<FC1, "1">> >> }

Dirs == {"d1", "d2"}

CsvNames == { <<"a", "csv">>, <<"b", "csv">> }

\* a file that *.csv does not match, with two flowcell ids in it
OtherFiles == [n \in { <<"notes", "txt">> } |-> <<Header, RowFC1, RowFC2>>]

DirStates ==
    {[exists |-> FALSE, files |-> EmptyDict]}
    \cup {[exists |-> TRUE, files |-> f @@ OtherFiles] :
             f \in UNION {[S -> Sheets] : S \in SUBSET CsvNames}}

Configs ==
    {EmptyDict}
    \cup {[samplesheet_directories |-> d] : d \in SeqsUpTo(Dirs, MaxDirs)}

\* "FC1", "FC", "FC1XXXX", "FC1XXXXX", "ZZ"
Names ==
    { FC1, <<70, 67>>, <<70, 67, 49, 88, 88, 88, 88>>,
      <<70, 67, 49, 88, 88, 88, 88, 88>>, <<90, 90>> }

\* config.get(key, default)
DictGet(d, key, default) == IF key \in DOMAIN d THEN d[key] ELSE default

\* glob.glob("*.csv") inside directory d
Glob(files) == {n \in DOMAIN files : n[2] = "csv"}

Orderings(S) == {s \in SeqsUpTo(S, Cardinality(S)) : Len(s) = Cardinality(S) /\ Range(s) = S}

\* os.path.join(ss_dir, ss)
PathJoin(d, n) == <<d, n>>

IndexSheet_keepfirst(index, fc_ids, path) ==
    index @@ [fcid \in {f \in fc_ids : f # NoStr} |-> path]

\* lines 92-94: fcid_sheet[fcid] = path for every fcid that is not empty,
\* replacing the entry the id had
IndexSheet(index, fc_ids, path) ==
    [fcid \in {f \in fc_ids : f # NoStr} |-> path] @@ index

----------------------------------------------------------------------------
(* Initial states: one call of csv2yaml, of run_has_samplesheet, or a      *)
(* caller iterating _read_input_csv by hand                                *)

ConvIdle ==
    /\ in_file = <<>> /\ gen = "none" /\ pass = 0 /\ pos = 0 /\ item = <<>>
    /\ info1 = <<>> /\ info2 = <<>> /\ handles = {} /\ barcode_ids = EmptyDict
    /\ cur_group = <<>> /\ groups = <<>> /\ all_lanes = <<>>
    /\ out = [exists |-> FALSE, content |-> <<>>]

LookupIdle ==
    /\ fc_name = <<>> /\ config = EmptyDict /\ fs = EmptyDict
    /\ todo = <<>> /\ listing = [dir |-> "", names |-> <<>>]
    /\ fcid_sheet = EmptyDict /\ scanned = <<>> /\ result = None

InitRead(o, p) ==
    /\ op = o /\ pc = p /\ error = "none"
    /\ in_file \in InputFiles
    /\ gen = "created" /\ pass = 1 /\ pos = 0 /\ item = <<>>
    /\ info1 = <<>> /\ info2 = <<>> /\ handles = {} /\ barcode_ids = EmptyDict
    /\ cur_group = <<>> /\ groups = <<>> /\ all_lanes = <<>>
    /\ out = [exists |-> FALSE, content |-> <<>>]
    /\ LookupIdle

InitLookup ==
    /\ op = "run_has_samplesheet" /\ pc = "dirs" /\ error = "none"
    /\ ConvIdle
    /\ fc_name \in Names
    /\ config \in Configs
    /\ fs \in [Dirs -> DirStates]
    /\ todo = DictGet(config, "samplesheet_directories", <<>>)
    /\ listing = [dir |-> "", names |-> <<>>]
    /\ fcid_sheet = EmptyDict /\ scanned = <<>> /\ result = None

\* the open and close of the input file depend only on the kind of each
\* line: a record, a blank line, a line with too few fields
ReaderFiles ==
    {<<>>}
    \cup {<<Header>> \o rows :
             rows \in SeqsUpTo({RowFC1, <<FC1, "2", "S2", "hg19", TTTT>>,
                                <<FC1, "1", "S1", "hg19">>, <<>>}, MaxRows)}

Init ==
    \/ InitRead("csv2yaml", "pass1")
    \/ InitRead("reader", "reading")
    \/ InitLookup

----------------------------------------------------------------------------
(* The generator _read_input_csv *)

\* first next(): open(in_file)
GenOpen ==
    /\ gen = "created" /\ pc \in {"pass1", "pass2", "reading"}
    /\ handles' = handles \cup {pass}
    /\ gen' = "running" /\ pos' = 1
    /\ UNCHANGED <<op, pc, in_file, pass, item, info1, info2, barcode_ids,
                   cur_group, groups, all_lanes, out, error>>
    /\ UNCHANGED lookupVars

\* reader.next() drops the header; on a file without lines its StopIteration
\* ends the generator, and the with block closes the file
GenHeader ==
    /\ gen = "running" /\ pos = 1
    /\ IF Len(in_file) = 0
       THEN gen' = "finished" /\ handles' = WithExit(handles, pass) /\ pos' = pos
       ELSE gen' = "running" /\ handles' = handles /\ pos' = 2
    /\ UNCHANGED <<op, pc, in_file, pass, item, info1, info2, barcode_ids,
                   cur_group, groups, all_lanes, out, error>>
    /\ UNCHANGED lookupVars

\* one line of the for loop: skipped, yielded, or too short to unpack; the
\* ValueError leaves the with block and goes up through the consumer
GenRow ==
    /\ gen = "running" /\ pos > 1 /\ pos <= Len(in_file)
    /\ LET kind == RowKind(in_file[pos])
       IN /\ pos' = pos + 1
          /\ gen' = CASE kind = "skip" -> "running"
                      [] kind = "yield" -> "suspended"
                      [] kind = "short" -> "finished"
          /\ item' = IF kind = "yield" THEN RowRecord(in_file[pos]) ELSE item
          /\ handles' = IF kind = "short" THEN WithExit(handles, pass) ELSE handles
          /\ pc' = IF kind = "short" THEN "failed" ELSE pc
          /\ error' = IF kind = "short" THEN "ValueError" ELSE error
    /\ UNCHANGED <<op, in_file, pass, info1, info2, barcode_ids,
                   cur_group, groups, all_lanes, out>>
    /\ UNCHANGED lookupVars

\* the reader is exhausted: the with block closes the file
GenExhaust ==
    /\ gen = "running" /\ pos > 1 /\ pos > Len(in_file)
    /\ gen' = "finished"
    /\ handles' = WithExit(handles, pass)
    /\ UNCHANGED <<op, pc, in_file, pass, pos, item, info1, info2, barcode_ids,
                   cur_group, groups, all_lanes, out, error>>
    /\ UNCHANGED lookupVars

\* a suspended generator nobody refers to any more is closed: GeneratorExit
\* is raised at the yield and leaves the with block
GenFinalize ==
    /\ gen = "abandoned"
    /\ gen' = "finalized"
    /\ handles' = WithExit(handles, pass)
    /\ UNCHANGED <<op, pc, in_file, pass, pos, item, info1, info2, barcode_ids,
                   cur_group, groups, all_lanes, out, error>>
    /\ UNCHANGED lookupVars

----------------------------------------------------------------------------
(* csv2yaml *)

\* _generate_barcode_ids takes the next record of its list comprehension
Pass1Take ==
    /\ pc = "pass1" /\ gen = "suspended"
    /\ info1' = Append(info1, item)
    /\ gen' = "running"
    /\ UNCHANGED <<op, pc, in_file, pass, pos, item, info2, handles, barcode_ids,
                   cur_group, groups, all_lanes, out, error>>
    /\ UNCHANGED lookupVars

\* the first pass is over: the barcode ids are built, and line 77 makes the
\* generator of the second pass
Pass1End ==
    /\ pc = "pass1" /\ gen = "finished"
    /\ barcode_ids' = _generate_barcode_ids(info1)
    /\ pc' = "pass2" /\ gen' = "created" /\ pass' = 2 /\ pos' = 0
    /\ UNCHANGED <<op, in_file, item, info1, info2, handles,
                   cur_group, groups, all_lanes, out, error>>
    /\ UNCHANGED lookupVars

\* itertools.groupby takes the next record: it joins the current group, or
\* ends it; the ended group becomes a lane before the next one is read
Pass2Take ==
    /\ pc = "pass2" /\ gen = "suspended"
    /\ info2' = Append(info2, item)
    /\ IF cur_group = <<>> \/ GroupKey(cur_group[1]) = GroupKey(item)
       THEN /\ cur_group' = Append(cur_group, item)
            /\ gen' = "running"
            /\ UNCHANGED <<pc, error, groups, all_lanes>>
       ELSE IF LaneKeyError(cur_group, barcode_ids)
       THEN /\ pc' = "failed" /\ error' = "KeyError" /\ gen' = "abandoned"
            /\ UNCHANGED <<cur_group, groups, all_lanes>>
       ELSE /\ all_lanes' = Append(all_lanes,
                                   LaneEntry(GroupKey(cur_group[1]), cur_group, barcode_ids))
            /\ groups' = Append(groups, cur_group)
            /\ cur_group' = <<item>>
            /\ gen' = "running"
            /\ UNCHANGED <<pc, error>>
    /\ UNCHANGED <<op, in_file, pass, pos, item, info1, handles, barcode_ids, out>>
    /\ UNCHANGED lookupVars

\* the second pass is over: the last group becomes a lane and
\* _organize_lanes returns
Pass2End ==
    /\ pc = "pass2" /\ gen = "finished"
    /\ IF cur_group = <<>>
       THEN pc' = "write" /\ UNCHANGED <<error, cur_group, groups, all_lanes>>
       ELSE IF LaneKeyError(cur_group, barcode_ids)
       THEN pc' = "failed" /\ error' = "KeyError"
            /\ UNCHANGED <<cur_group, groups, all_lanes>>
       ELSE /\ all_lanes' = Append(all_lanes,
                                   LaneEntry(GroupKey(cur_group[1]), cur_group, barcode_ids))
            /\ groups' = Append(groups, cur_group)
            /\ cur_group' = <<>>
            /\ pc' = "write" /\ error' = error
    /\ UNCHANGED <<op, in_file, gen, pass, pos, item, info1, info2, handles,
                   barcode_ids, out>>
    /\ UNCHANGED lookupVars

\* open(out_file, "w"), write the dumped lanes, return out_file
WriteOutput ==
    /\ pc = "write"
    /\ out' = [exists |-> TRUE, content |-> all_lanes]
    /\ pc' = "done"
    /\ UNCHANGED <<op, in_file, gen, pass, pos, item, info1, info2, handles,
                   barcode_ids, cur_group, groups, all_lanes, error>>
    /\ UNCHANGED lookupVars

----------------------------------------------------------------------------
(* A caller that iterates _read_input_csv and may stop before the end *)

ReaderTake ==
    /\ pc = "reading" /\ gen = "suspended"
    /\ info1' = Append(info1, item)
    /\ gen' = "running"
    /\ UNCHANGED <<op, pc, in_file, pass, pos, item, info2, handles, barcode_ids,
                   cur_group, groups, all_lanes, out, error>>
    /\ UNCHANGED lookupVars

\* the caller drops the generator while it is suspended at its yield
ReaderAbandon ==
    /\ pc = "reading" /\ gen = "suspended"
    /\ gen' = "abandoned" /\ pc' = "done"
    /\ UNCHANGED <<op, in_file, pass, pos, item, info1, info2, handles, barcode_ids,
                   cur_group, groups, all_lanes, out, error>>
    /\ UNCHANGED lookupVars

ReaderEnd ==
    /\ pc = "reading" /\ gen = "finished"
    /\ pc' = "done"
    /\ UNCHANGED <<op, in_file, gen, pass, pos, item, info1, info2, handles,
                   barcode_ids, cur_group, groups, all_lanes, out, error>>
    /\ UNCHANGED lookupVars

----------------------------------------------------------------------------
(* run_has_samplesheet *)

\* the next configured directory: skipped unless os.path.exists, else
\* entered and globbed, in whatever order glob lists the files
NextDir ==
    /\ pc = "dirs" /\ todo # <<>>
    /\ todo' = Tail(todo)
    /\ IF fs[Head(todo)].exists
       THEN /\ pc' = "files"
            /\ \E order \in Orderings(Glob(fs[Head(todo)].files)) :
                  listing' = [dir |-> Head(todo), names |-> order]
       ELSE UNCHANGED <<pc, listing>>
    /\ UNCHANGED <<op, error, fc_name, config, fs, fcid_sheet, scanned, result>>
    /\ UNCHANGED convVars

\* one sheet of the directory: its flowcell id, if not empty, is indexed
\* under the joined path; a ValueError of _get_flowcell_id ends the call
ScanSheet ==
    /\ pc = "files" /\ listing.names # <<>>
    /\ LET ss == Head(listing.names)
           fc_ids == _get_flowcell_id(fs[listing.dir].files[ss])
       IN IF fc_ids.err
          THEN /\ pc' = "failed" /\ error' = "ValueError"
               /\ UNCHANGED <<listing, fcid_sheet, scanned>>
          ELSE /\ fcid_sheet' = IndexSheet(fcid_sheet, fc_ids.ids, PathJoin(listing.dir, ss))
               /\ scanned' = Append(scanned, PathJoin(listing.dir, ss))
               /\ listing' = [listing EXCEPT !.names = Tail(listing.names)]
               /\ UNCHANGED <<pc, error>>
    /\ UNCHANGED <<op, fc_name, config, fs, todo, result>>
    /\ UNCHANGED convVars

\* the directory is done
LeaveDir ==
    /\ pc = "files" /\ listing.names = <<>>
    /\ pc' = "dirs"
    /\ UNCHANGED <<op, error, fc_name, config, fs, todo, listing, fcid_sheet,
                   scanned, result>>
    /\ UNCHANGED convVars

\* lines 98-102: the best close match, looked up in the index
FindMatch ==
    /\ pc = "dirs" /\ todo = <<>>
    /\ LET potential_fcids == get_close_matches(fc_name, DOMAIN fcid_sheet)
       IN result' = IF Len(potential_fcids) > 0 /\ potential_fcids[1] \in DOMAIN fcid_sheet
                    THEN fcid_sheet[potential_fcids[1]]
                    ELSE None
    /\ pc' = "done"
    /\ UNCHANGED <<op, error, fc_name, config, fs, todo, listing, fcid_sheet, scanned>>
    /\ UNCHANGED convVars

----------------------------------------------------------------------------

Next ==
    \/ GenOpen \/ GenHeader \/ GenRow \/ GenExhaust \/ GenFinalize
    \/ Pass1Take \/ Pass1End \/ Pass2Take \/ Pass2End \/ WriteOutput
    \/ ReaderTake \/ ReaderAbandon \/ ReaderEnd
    \/ NextDir \/ ScanSheet \/ LeaveDir \/ FindMatch

Spec == Init /\ [][Next]_vars

InitReader ==
    /\ InitRead("csv2yaml", "pass1") \/ InitRead("reader", "reading")
    /\ in_file \in ReaderFiles

NextReader ==
    \/ GenOpen \/ GenHeader \/ GenRow \/ GenExhaust \/ GenFinalize
    \/ Pass1Take \/ Pass1End \/ Pass2Take \/ Pass2End \/ WriteOutput
    \/ ReaderTake \/ ReaderAbandon \/ ReaderEnd

\* the calls that read an input file, under the scheduling of the
\* interpreter: it runs a call to its end, and closes a generator that has
\* become unreachable
LiveSpec == InitReader /\ [][NextReader]_vars /\ WF_vars(NextReader)

----------------------------------------------------------------------------
(* Vocabulary of the properties *)

\* the flowcell_id fields of the data rows of a file, read off the file
RawFcids(file) == {file[i][1] : i \in {j \in DOMAIN file : j > 1 /\ Len(file[j]) > 0}}

\* the records of the data rows of a file that has no short row
RawRecords(file) ==
    LET idx == {j \in DOMAIN file : j > 1 /\ Len(file[j]) >= 5}
        RECURSIVE upto(_)
        upto(n) == IF n = 0 THEN <<>>
                   ELSE IF n \in idx THEN Append(upto(n - 1), SubSeq(file[n], 1, 5))
                   ELSE upto(n - 1)
    IN upto(Len(file))

RECURSIVE SumLen(_, _)
\* the number of records in the first n groups
SumLen(gs, n) == IF n = 0 THEN 0 ELSE SumLen(gs, n - 1) + Len(gs[n])

RECURSIVE Flatten(_)
Flatten(gs) == IF gs = <<>> THEN <<>> ELSE Head(gs) \o Flatten(Tail(gs))

Converting == op = "csv2yaml"
LookingUp == op = "run_has_samplesheet"

\* _generate_barcode_ids has returned
BarcodesBuilt == Converting /\ pc \in {"pass2", "write", "done"}

\* _organize_lanes has returned
LanesBuilt == Converting /\ pc \in {"write", "done"}

----------------------------------------------------------------------------
(* C1: every group of exactly one record gives a lane entry whose          *)
(* description is that record's sample_id (third field) and that has no    *)
(* multiplex key.                                                          *)
C1_SingleRecordDescription ==
    Converting =>
       \A i \in DOMAIN all_lanes :
          Len(groups[i]) = 1 =>
             /\ all_lanes[i].description = groups[i][1][3]
             /\ "multiplex" \notin DOMAIN all_lanes[i]

(* C2: csv2yaml on a sheet whose data rows carry two or more distinct      *)
(* flowcell ids fails with the ValueError of the consistency check and     *)
(* neither creates nor writes the output file.                             *)
C2_MultiFcidRejected ==
    (Converting /\ Cardinality(RawFcids(in_file)) >= 2) =>
       /\ ~out.exists
       /\ pc # "done"
       /\ (pc = "failed" => error = "ValueError")

(* C3: the barcode mapping has exactly the N distinct non-empty barcode    *)
(* sequences as keys, numbered 1..N in ascending lexicographic order, each *)
(* of type "SampleSheet".                                                  *)
C3_IndexDensity ==
    BarcodesBuilt =>
       LET seqs == {r[5] : r \in Range(info1)} \ {NoStr}
       IN /\ DOMAIN barcode_ids = seqs
          /\ {barcode_ids[b][2] : b \in seqs} = 1..Cardinality(seqs)
          /\ \A b \in seqs : barcode_ids[b][1] = "SampleSheet"
          /\ \A b, c \in seqs : StrLess(b, c) => barcode_ids[b][2] < barcode_ids[c][2]

(* C4: a lane entry has the multiplex key exactly when its group has more  *)
(* than one record; the multiplex list then has one entry per record of    *)
(* the group, in input order, with the record's sample_id as name, its     *)
(* barcode as sequence and the (type, id) of the barcode assignment.       *)
C4_Multiplex ==
    Converting =>
       /\ Len(all_lanes) = Len(groups)
       /\ \A i \in DOMAIN all_lanes :
             LET e == all_lanes[i]
                 first == SumLen(groups, i - 1)
                 size == Len(groups[i])
             IN /\ size >= 1
                /\ ("multiplex" \in DOMAIN e) <=> (size > 1)
                /\ "multiplex" \in DOMAIN e =>
                      /\ Len(e.multiplex) = size
                      /\ \A k \in 1..size :
                            LET r == info2[first + k]
                            IN /\ e.multiplex[k].name = r[3]
                               /\ e.multiplex[k].sequence = r[5]
                               /\ <<e.multiplex[k].barcode_type, e.multiplex[k].barcode_id>>
                                     = barcode_ids[r[5]]

C4_Witness ==
    /\ LanesBuilt
    /\ \E i, j \in DOMAIN all_lanes :
          /\ "multiplex" \in DOMAIN all_lanes[i] /\ Len(all_lanes[i].multiplex) >= 2
          /\ "multiplex" \notin DOMAIN all_lanes[j]

(* C7: the barcode mapping depends only on the set of distinct barcodes:   *)
(* reordering the records, repeating or dropping a repeated barcode and    *)
(* changing the other fields of a record all give the same mapping.        *)
C7_Variants(s) ==
    {[i \in DOMAIN s |-> s[p[i]]] : p \in Permutations(DOMAIN s)}
    \cup {s \o <<s[i]>> : i \in DOMAIN s}
    \cup {<<s[i]>> \o s : i \in DOMAIN s}
    \cup {SubSeq(s, 1, i - 1) \o SubSeq(s, i + 1, Len(s)) :
             i \in {j \in DOMAIN s : \E k \in DOMAIN s : k # j /\ s[k][5] = s[j][5]}}
    \cup UNION {{[s EXCEPT ![i] = SubSeq(r, 1, 5)] :
                    r \in {q \in DataRows : Len(q) >= 5 /\ q[5] = s[i][5]}} :
                i \in DOMAIN s}

C7_SetDetermined ==
    (Converting /\ pc = "pass2" /\ gen = "created") =>
       \A s \in C7_Variants(info1) : _generate_barcode_ids(s) = barcode_ids

C7_Witness ==
    /\ Converting /\ pc = "pass2" /\ gen = "created"
    /\ Len(info1) >= 3
    /\ \E i, j \in DOMAIN info1 : i < j /\ info1[i][5] = info1[j][5]
    /\ \E i, j \in DOMAIN info1 : i < j /\ StrLess(info1[j][5], info1[i][5])

(* C8: the lane entries are the maximal contiguous runs of records with    *)
(* equal (lane, genome_build), in input order: the groups concatenated are *)
(* the records read, every record of a group has the key of its entry, and *)
(* adjacent entries differ in lane or genome_build; nothing is merged or   *)
(* sorted.                                                                 *)
C8_ContiguousRuns ==
    LanesBuilt =>
       /\ Len(all_lanes) = Len(groups)
       /\ info2 = RawRecords(in_file)
       /\ Flatten(groups) = info2
       /\ SumLen(groups, Len(groups)) = Len(info2)
       /\ \A i \in DOMAIN groups :
             /\ groups[i] # <<>>
             /\ \A k \in DOMAIN groups[i] :
                   /\ all_lanes[i].lane = groups[i][k][2]
                   /\ all_lanes[i].genome_build = groups[i][k][4]
       /\ \A i \in DOMAIN all_lanes :
             i > 1 => \/ all_lanes[i].lane # all_lanes[i - 1].lane
                      \/ all_lanes[i].genome_build # all_lanes[i - 1].genome_build

C8_Witness ==
    /\ LanesBuilt
    /\ Len(all_lanes) = 3
    /\ all_lanes[1].lane = all_lanes[3].lane
    /\ all_lanes[1].genome_build = all_lanes[3].genome_build

----------------------------------------------------------------------------
(* Vocabulary of the lookup properties *)

ConfiguredDirs == Range(DictGet(config, "samplesheet_directories", <<>>))

\* the candidate files: the *.csv files of the configured directories
\* that exist
Candidates ==
    {c \in ConfiguredDirs \X CsvNames : fs[c[1]].exists /\ c[2] \in DOMAIN fs[c[1]].files}

FileAt(path) == fs[path[1]].files[path[2]]

\* every candidate file has been scanned
ScanOver == LookingUp /\ ((pc = "dirs" /\ todo = <<>>) \/ pc = "done")

\* the similarity of an identifier to the target name is below 0.6
BelowCutoff(id) == 10 * Ratio(id, fc_name)[1] < 6 * Ratio(id, fc_name)[2]

\* the index as the scan order defines it: every identifier of ids maps to
\* the last scanned file that contains it
LastScannedIndex(ids) ==
    /\ DOMAIN fcid_sheet = ids
    /\ \A id \in ids :
          \E i \in DOMAIN scanned :
             /\ fcid_sheet[id] = scanned[i]
             /\ id \in RawFcids(FileAt(scanned[i]))
             /\ \A j \in DOMAIN scanned : j > i => id \notin RawFcids(FileAt(scanned[j]))

\* a result other than None is the index entry of a best-matching
\* identifier, and the file it names contains that identifier
ResultIsBestEntry ==
    (pc = "done" /\ result # None) =>
       \E id \in DOMAIN fcid_sheet :
          /\ result = fcid_sheet[id]
          /\ result \in Candidates
          /\ id \in RawFcids(FileAt(result))
          /\ ~BelowCutoff(id)
          /\ \A other \in DOMAIN fcid_sheet :
                ~RatioLess(Ratio(id, fc_name), Ratio(other, fc_name))

(* C5: when some candidate file holds more than one distinct flowcell id,  *)
(* run_has_samplesheet never returns a path: it ends with a ValueError,    *)
(* whatever the other candidates are and in whatever order they are        *)
(* scanned.                                                                *)
C5_LookupAborts ==
    (LookingUp /\ \E c \in Candidates : Cardinality(RawFcids(FileAt(c))) > 1) =>
       /\ pc # "done"
       /\ result = None
       /\ (pc = "failed" => error = "ValueError")

C5_Witness ==
    /\ LookingUp /\ pc = "failed"
    /\ \E c \in Candidates : Cardinality(RawFcids(FileAt(c))) > 1
    /\ fc_name \in DOMAIN fcid_sheet
    /\ \A c \in Candidates : \A r \in Range(FileAt(c)) : RowKind(r) # "short"

(* C6: a lookup miss is the value None and never an error: without a       *)
(* configured directory, without a candidate file, and when no indexed     *)
(* identifier reaches the similarity 0.6, the call returns None.           *)
C6_MissIsNone ==
    LookingUp =>
       /\ (ConfiguredDirs = {} \/ Candidates = {}) =>
             /\ pc # "failed"
             /\ error = "none"
             /\ result = None
       /\ (pc = "done" /\ \A id \in DOMAIN fcid_sheet : BelowCutoff(id)) =>
             /\ error = "none"
             /\ result = None

C6_Witness ==
    /\ LookingUp /\ pc = "done" /\ result = None
    /\ DOMAIN fcid_sheet # {}
    /\ \E id \in DOMAIN fcid_sheet : 2 * Ratio(id, fc_name)[1] >= Ratio(id, fc_name)[2]

(* C10, as claimed: after the scan the index maps each distinct flowcell   *)
(* identifier found in a candidate file to the last scanned file that      *)
(* contains it, and a result other than None is the entry of the best      *)
(* match.                                                                  *)
C10_IndexAllIds ==
    ScanOver =>
       /\ Range(scanned) = Candidates
       /\ LastScannedIndex(UNION {RawFcids(FileAt(c)) : c \in Candidates})
       /\ ResultIsBestEntry

(* C10, amended: after the scan the index maps each distinct non-empty     *)
(* flowcell identifier found in a candidate file to the last scanned file  *)
(* that contains it (an empty flowcell_id field is not indexed), and a     *)
(* result other than None is the entry of the best match.                  *)
C10_IndexNonEmptyIds ==
    ScanOver =>
       /\ Range(scanned) = Candidates
       /\ LastScannedIndex(UNION {RawFcids(FileAt(c)) : c \in Candidates} \ {NoStr})
       /\ ResultIsBestEntry

C10_Witness ==
    /\ LookingUp /\ pc = "done" /\ result # None
    /\ \E i, j \in DOMAIN scanned :
          /\ i < j /\ scanned[i] # scanned[j] /\ result = scanned[j]
          /\ RawFcids(FileAt(scanned[i])) = RawFcids(FileAt(scanned[j]))
    /\ Cardinality(DOMAIN fcid_sheet) = 2

----------------------------------------------------------------------------
(* C9: every file handle a read pass opens is closed again, when the       *)
(* records are exhausted, when a short row raises, and when the consumer   *)
(* abandons the generator; at most one input handle is open at a time, so  *)
(* the first pass of csv2yaml has closed its handle before the second      *)
(* opens the file, and none is open when csv2yaml has returned or failed.  *)
C9_HandlesReleased ==
    /\ [](/\ Cardinality(handles) <= 1
          /\ handles \subseteq {pass}
          /\ gen \in {"created", "finished", "finalized"} => handles = {}
          /\ (Converting /\ pc \in {"write", "done", "failed"}) => handles = {})
    /\ \A h \in {1, 2} : (h \in handles) ~> (h \notin handles)

C9_Witness ==
    /\ Converting /\ pc = "done"
    /\ pass = 2 /\ gen = "finished"
    /\ Len(info1) >= 2 /\ Len(info2) >= 2
    /\ handles = {}

====
